---------------------------- MODULE Spec2Model ----------------------------
(***************************************************************************)
(* A state-machine model of nmt/model.py (BaseModel and Model): model      *)
(* construction from a hyperparameter record and a Mode, the train / eval  *)
(* / infer / decode driver operations, the learning-rate schedule (warmup  *)
(* composed with staircase decay), the bounded inference decode loop, the  *)
(* encoder and decoder state structures of the graph, the masked loss and  *)
(* the layout of the decoded words.                                        *)
(*                                                                         *)
(* A learning rate is kept symbolically as                                 *)
(*     base * 0.01^(warm[1]/warm[2]) * 0.5^halvings        (kind "num")    *)
(* or as one of the IEEE results "nan" and "zero" (base * 0.0) that the    *)
(* float division by decay_steps = 0 produces.                             *)
(***************************************************************************)
EXTENDS Integers, Sequences, FiniteSets

VARIABLES
  hparams,            \* the hyperparameter record handed to the constructor
  mode,               \* self.mode: "TRAIN" | "EVAL" | "INFER"
  source_sequence_length, \* iterator.source_sequence_length, one entry per batch element
  status,             \* "config" (not constructed yet) | "built" | "ValueError"
  error,              \* the message of the ValueError raised by the constructor, or ""
  my_decoder,         \* the decoder/helper chosen by _build_decoder, "" before construction
  global_step,        \* self.global_step
  params,             \* the trainable parameters, as the number of optimizer updates applied
  train_calls,        \* history: number of completed train calls
  pc,                 \* "idle" | "decoding" (a session run of the inference graph is in its loop)
  inflight,           \* the operation whose session run is in the decode loop: "infer" | "decode" | ""
  time,               \* dynamic_decode's loop counter
  finished,           \* dynamic_decode's per-sequence finished flags
  sequence_lengths,   \* dynamic_decode's per-sequence recorded lengths
  last,               \* what the most recent call returned
  target_sequence_length, \* iterator.target_sequence_length, one entry per batch element
  crossent,           \* the cross-entropy of every position of the batch, [batch][time], padding included
  encoder_state,      \* what _build_encoder returned as the encoder's final state
  decoder_initial_state, \* what _build_decoder_cell returned as the decoder's initial state
  loss,               \* the loss fetched by the most recent train or eval call
  sample_words        \* the axes of the words returned by the most recent infer or decode call

vars == <<hparams, mode, source_sequence_length, status, error, my_decoder,
          global_step, params, train_calls, pc, inflight, time, finished,
          sequence_lengths, last, target_sequence_length, crossent,
          encoder_state, decoder_initial_state, loss, sample_words>>

modelVars == <<hparams, mode, source_sequence_length, status, error, my_decoder,
               target_sequence_length, crossent, encoder_state,
               decoder_initial_state>>

fetchVars == <<loss, sample_words>>

loopVars == <<pc, inflight, time, finished, sequence_lengths>>

-----------------------------------------------------------------------------
(* Bounds of the model *)

\* largest beam_width drawn (smallest is -1: the code compares with > 0 only)
MaxBeamWidth == 2

\* num_train_steps in the driver specification
DriverTrainSteps == 2

\* train calls allowed past num_train_steps
MaxExtraSteps == 2

\* largest num_train_steps of the learning-rate specification
MaxTrainSteps == 22

\* largest warmup_steps of the learning-rate specification
MaxWarmupSteps == 6

\* number of sequences in a batch
BatchSize == 2

\* largest source sequence length
MaxSrcLen == 2

\* largest tgt_max_len_infer (0 is "not set": the code tests its truth value)
MaxTgtLenInfer == 3

\* largest num_encoder_layers and num_decoder_layers (smallest is 1: the
\* constructor asserts both)
MaxLayers == 4

\* largest padded target length (max_time) of a batch
MaxTime == 3

Modes == {"TRAIN", "EVAL", "INFER"}

EncoderTypes == {"uni", "bi", "gnmt"}

WarmupSchemes == {"t2t", "noam"}

DecaySchemes == {"", "luong5", "luong10", "luong234", "exp"}

LuongSchemes == {"luong5", "luong10", "luong234"}

\* sampling_temperature is a float compared with 0.0 only: one value per sign
SamplingTemperatures == {-1, 0, 1}

-----------------------------------------------------------------------------
(* Learning rates *)

\* tf.constant(hparams.learning_rate): the base rate itself
BaseRate == [kind |-> "num", warm |-> <<0, 1>>, halvings |-> 0]

NoRate == [kind |-> "none", warm |-> <<0, 1>>, halvings |-> 0]

NaNRate == [kind |-> "nan", warm |-> <<0, 1>>, halvings |-> 0]

ZeroRate == [kind |-> "zero", warm |-> <<0, 1>>, halvings |-> 0]

\* int(x / y) of Python for x >= 0, y > 0 (true division, then truncation)
PyInt(x, y) == x \div y

\* a <= b as real numbers (false when either is NaN); log2(100) = 6.643856...
\* is irrational, so the sign of the comparison is exact for small integers
RateLeq(a, b) ==
  IF a.kind = "nan" \/ b.kind = "nan" THEN FALSE
  ELSE IF a.kind = "zero" THEN TRUE
  ELSE IF b.kind = "zero" THEN FALSE
  ELSE (b.warm[1] * a.warm[2] - a.warm[1] * b.warm[2]) * 6643856
         <= (a.halvings - b.halvings) * a.warm[2] * b.warm[2] * 1000000

RateLess(a, b) == RateLeq(a, b) /\ ~RateLeq(b, a)

\* the rate r multiplied by 0.5
Halved(r) == IF r.kind = "num" THEN [r EXCEPT !.halvings = @ + 1] ELSE r

WarmupSchemeKnownAny(hp) == TRUE

\* the test of _get_learning_rate_warmup that raises "Unknown warmup scheme"
WarmupSchemeKnown(hp) == hp.warmup_scheme = "t2t"

WarmupExponentFromStep(warmup_steps, gs) == gs

\* the exponent of warmup_factor in inv_decay
WarmupExponent(warmup_steps, gs) == warmup_steps - gs

\* inv_decay * lr, inv_decay = exp(log(0.01) / warmup_steps) ** e = 0.01^(e / warmup_steps)
TimesInvDecay(lr, e, warmup_steps) ==
  IF lr.kind # "num" THEN lr
  ELSE IF e = 0 THEN lr
  ELSE [lr EXCEPT !.warm = <<e, warmup_steps>>]

\* _get_learning_rate_warmup for a known scheme: the value of its tf.cond
get_learning_rate_warmup(hp, gs, lr) ==
  IF gs < hp.warmup_steps
    THEN TimesInvDecay(lr, WarmupExponent(hp.warmup_steps, gs), hp.warmup_steps)
    ELSE lr

\* the tests of _get_learning_rate_decay that end in "Unknown decay scheme"
DecaySchemeKnown(hp) == hp.decay_scheme \in LuongSchemes \/ hp.decay_scheme = ""

decay_times(hp) ==
  CASE hp.decay_scheme = "luong5" -> 5
    [] hp.decay_scheme = "luong10" -> 10
    [] hp.decay_scheme = "luong234" -> 4

start_decay_step(hp) ==
  CASE hp.decay_scheme \in {"luong5", "luong10"} -> PyInt(hp.num_train_steps, 2)
    [] hp.decay_scheme = "luong234" -> PyInt(hp.num_train_steps * 2, 3)
    [] OTHER -> hp.num_train_steps

decay_steps(hp) ==
  IF hp.decay_scheme \in LuongSchemes
    THEN PyInt(hp.num_train_steps - start_decay_step(hp), decay_times(hp))
    ELSE 0

\* decay_factor: "0.5" for the luong schemes, "1.0" without a scheme
decay_factor(hp) == IF hp.decay_scheme \in LuongSchemes THEN "0.5" ELSE "1.0"

\* tf.train.exponential_decay(lr, step, steps, factor, staircase=True):
\* lr * factor ** floor(step / steps) in float arithmetic, where step / 0.0 is
\* NaN for step = 0 and +inf for step > 0, 0.5 ** NaN is NaN, 0.5 ** inf is 0.0
\* and 1.0 ** anything is 1.0
exponential_decay(lr, step, steps, factor) ==
  IF factor = "1.0" THEN lr
  ELSE IF steps = 0 THEN (IF step = 0 THEN NaNRate ELSE ZeroRate)
  ELSE IF lr.kind # "num" THEN lr
  ELSE [lr EXCEPT !.halvings = @ + (step \div steps)]

\* _get_learning_rate_decay for a known scheme: the value of its tf.cond
get_learning_rate_decay(hp, gs, lr) ==
  IF gs < start_decay_step(hp)
    THEN lr
    ELSE exponential_decay(lr, gs - start_decay_step(hp), decay_steps(hp),
                           decay_factor(hp))

\* self.learning_rate of a TRAIN model, evaluated at global step gs
learning_rate(hp, gs) ==
  get_learning_rate_decay(hp, gs, get_learning_rate_warmup(hp, gs, BaseRate))

-----------------------------------------------------------------------------
(* Construction: BaseModel.__init__ with Model's builders *)

\* the branches of Model._build_encoder that do not raise "Unknown encoder_type"
EncoderTypeKnown(hp) == hp.encoder_type \in {"uni", "bi"}

AttentionRejectedNever(hp) == FALSE

\* the test of Model._build_decoder_cell that raises "BasicModel doesn't support attention."
AttentionRejected(hp) == hp.attention

build_decoder_beam_at_zero(hp, m) ==
  IF m # "INFER" THEN "TrainingHelper"
  ELSE IF hp.beam_width >= 0 THEN "BeamSearchDecoder"
  ELSE IF hp.sampling_temperature > 0 THEN "SampleEmbeddingHelper"
  ELSE "GreedyEmbeddingHelper"

\* the decoder (or the helper of the BasicDecoder) that _build_decoder creates
build_decoder(hp, m) ==
  IF m # "INFER" THEN "TrainingHelper"
  ELSE IF hp.beam_width > 0 THEN "BeamSearchDecoder"
  ELSE IF hp.sampling_temperature > 0 THEN "SampleEmbeddingHelper"
  ELSE "GreedyEmbeddingHelper"

\* The state structures of the graph.  A state is either the final state of
\* one RNN layer (t = "state": its direction, its layer and the batch element
\* each of its rows belongs to) or a tuple of states (t = "tuple").
BatchRows == [b \in 1..BatchSize |-> b]

LayerState(dir, layer) ==
  [t |-> "state", dir |-> dir, layer |-> layer, rows |-> BatchRows,
   items |-> <<>>]

StateTuple(items) ==
  [t |-> "tuple", dir |-> "", layer |-> 0, rows |-> <<>>, items |-> items]

NoState == [t |-> "none", dir |-> "", layer |-> 0, rows |-> <<>>, items |-> <<>>]

\* model_helper.create_rnn_cell, as the final state of the cell it returns:
\* one layer is that layer's cell alone, several layers are a stacked cell
\* whose state is the tuple of the layers' states
create_rnn_cell(dir, num_layers) ==
  IF num_layers = 1
    THEN LayerState(dir, 1)
    ELSE StateTuple([l \in 1..num_layers |-> LayerState(dir, l)])

\* model_helper.create_rnn_cell fails when it is asked for no layer
create_rnn_cell_fails(num_layers) == num_layers = 0

num_bi_layers_unhalved(hp) == hp.num_encoder_layers

\* num_bi_layers = int(num_layers / 2)
num_bi_layers(hp) == PyInt(hp.num_encoder_layers, 2)

\* _build_bidirectional_rnn: bi_state = (forward state, backward state) of
\* two cells of num_bi_layers layers each
build_bidirectional_rnn(n) ==
  StateTuple(<<create_rnn_cell("fw", n), create_rnn_cell("bw", n)>>)

interleave_forward_then_backward(bi_encoder_state, n) ==
  StateTuple([i \in 1..(2 * n) |->
                IF i <= n THEN bi_encoder_state.items[1].items[i]
                          ELSE bi_encoder_state.items[2].items[i - n]])

\* the loop of _build_encoder over layer_id: append bi_encoder_state[0][layer_id]
\* then bi_encoder_state[1][layer_id], and make the list a tuple
interleave_encoder_state(bi_encoder_state, n) ==
  StateTuple([i \in 1..(2 * n) |->
                IF i % 2 = 1 THEN bi_encoder_state.items[1].items[(i + 1) \div 2]
                             ELSE bi_encoder_state.items[2].items[i \div 2]])

\* the encoder_state that _build_encoder returns for a known encoder type
build_encoder(hp) ==
  IF hp.encoder_type = "uni"
    THEN create_rnn_cell("uni", hp.num_encoder_layers)
    ELSE LET bi_encoder_state == build_bidirectional_rnn(num_bi_layers(hp))
         IN IF num_bi_layers(hp) = 1
              THEN bi_encoder_state
              ELSE interleave_encoder_state(bi_encoder_state, num_bi_layers(hp))

\* _build_encoder fails in create_rnn_cell: the two cells of a "bi" encoder
\* of one layer have int(1 / 2) = 0 layers
EncoderCellFails(hp) ==
  IF hp.encoder_type = "uni"
    THEN create_rnn_cell_fails(hp.num_encoder_layers)
    ELSE create_rnn_cell_fails(num_bi_layers(hp))

\* tf.contrib.seq2seq.tile_batch(t, multiplier): every row of every state
\* of the structure is repeated multiplier times, in place
tile_batch(t, multiplier) ==
  LET tile(rows) ==
        [i \in 1..(Len(rows) * multiplier) |-> rows[((i - 1) \div multiplier) + 1]]
      leaf(s) == [s EXCEPT !.rows = tile(s.rows)]
  IN IF t.t = "state"
       THEN leaf(t)
       ELSE [t EXCEPT !.items = [i \in DOMAIN t.items |-> leaf(t.items[i])]]

decoder_initial_state_tiled_in_any_mode(hp, m, state) ==
  IF hp.beam_width > 0
    THEN tile_batch(state, hp.beam_width)
    ELSE state

\* the decoder_initial_state that _build_decoder_cell returns
build_decoder_cell(hp, m, state) ==
  IF m = "INFER" /\ hp.beam_width > 0
    THEN tile_batch(state, hp.beam_width)
    ELSE state

\* the number of per-layer states of a state structure
StateEntries(state) == IF state.t = "state" THEN 1 ELSE Len(state.items)

\* the decoder runs its cell (create_rnn_cell of num_decoder_layers layers)
\* on the initial state: a one-layer cell takes one layer's state, a stacked
\* cell takes a tuple with one state per layer
DecoderCellTakes(hp, state) ==
  LET cell_state == create_rnn_cell("decoder", hp.num_decoder_layers)
  IN /\ state.t = cell_state.t
     /\ StateEntries(state) = StateEntries(cell_state)

\* the error the constructor raises, in the order the constructor meets
\* them: build_graph (encoder, then decoder cell, then decoder), then for
\* TRAIN the learning-rate warmup and decay; "" when construction succeeds
ConstructionError(hp, m) ==
  IF ~EncoderTypeKnown(hp) THEN "Unknown encoder_type"
  ELSE IF EncoderCellFails(hp) THEN "create_rnn_cell: no layers"
  ELSE IF AttentionRejected(hp) THEN "BasicModel doesn't support attention."
  ELSE IF ~DecoderCellTakes(hp, build_encoder(hp))
    THEN "decoder cell: state structure mismatch"
  ELSE IF m = "TRAIN" /\ ~WarmupSchemeKnown(hp) THEN "Unknown warmup scheme"
  ELSE IF m = "TRAIN" /\ ~DecaySchemeKnown(hp) THEN "Unknown decay scheme"
  ELSE ""

Construct ==
  /\ status = "config"
  /\ error' = ConstructionError(hparams, mode)
  /\ status' = IF error' = "" THEN "built" ELSE "ValueError"
  /\ my_decoder' = IF error' = "" THEN build_decoder(hparams, mode) ELSE ""
  /\ encoder_state' = IF error' = "" THEN build_encoder(hparams) ELSE NoState
  /\ decoder_initial_state' =
       IF error' = ""
         THEN build_decoder_cell(hparams, mode, build_encoder(hparams))
         ELSE NoState
  /\ global_step' = 0
  /\ UNCHANGED <<hparams, mode, source_sequence_length, params, train_calls,
                 last, target_sequence_length, crossent>>
  /\ UNCHANGED loopVars
  /\ UNCHANGED fetchVars

-----------------------------------------------------------------------------
(* The driver: train, eval, infer, decode *)

TrainFetches ==
  {"update", "train_loss", "predict_count", "train_summary", "global_step",
   "word_count", "batch_size", "grad_norm", "learning_rate"}

EvalFetchesWithUpdate == {"update", "eval_loss", "predict_count", "batch_size"}

EvalFetches == {"eval_loss", "predict_count", "batch_size"}

InferFetches == {"infer_logits", "infer_summary", "sample_id", "sample_words"}

apply_gradients_without_global_step(gs) == gs

\* opt.apply_gradients(..., global_step=self.global_step) increments the step
apply_gradients_global_step(gs) == gs + 1

\* the parameters after a session run of fetches: self.update is the only
\* operation of the graph that assigns to them
RunParams(fetches, p) == IF "update" \in fetches THEN p + 1 ELSE p

\* the global step after a session run of fetches
RunGlobalStep(fetches, gs) ==
  IF "update" \in fetches THEN apply_gradients_global_step(gs) ELSE gs

\* the value fetched for self.global_step in the run that also runs
\* self.update: the read is not ordered against the increment
fetched_global_step(old, new) == {old, new}

TrainModeOkNotInfer == mode # "INFER"

\* assert self.mode == TRAIN
TrainModeOk == mode = "TRAIN"

\* assert self.mode == EVAL
EvalModeOk == mode = "EVAL"

\* assert self.mode == INFER
InferModeOk == mode = "INFER"

Returned(op, gs, lr) ==
  [op |-> op, outcome |-> "ok", global_step |-> gs, learning_rate |-> lr]

AssertionFailed(op) ==
  [op |-> op, outcome |-> "AssertionError", global_step |-> -1,
   learning_rate |-> NoRate]

NoCall == [op |-> "", outcome |-> "", global_step |-> -1, learning_rate |-> NoRate]

RECURSIVE SumSeq(_)
SumSeq(s) == IF s = <<>> THEN 0 ELSE s[1] + SumSeq(Tail(s))

\* tf.reduce_sum of a matrix
reduce_sum(m) == SumSeq([i \in DOMAIN m |-> SumSeq(m[i])])

\* tf.transpose of a matrix of the given numbers of rows and columns
transpose(m, rows, cols) == [j \in 1..cols |-> [i \in 1..rows |-> m[i][j]]]

sequence_mask_one_more(lengths, max_time) ==
  [b \in DOMAIN lengths |->
     [t \in 1..max_time |-> IF t <= lengths[b] + 1 THEN 1 ELSE 0]]

\* tf.sequence_mask(lengths, max_time): row b is 1 at the first lengths[b]
\* of the max_time positions and 0 after them
sequence_mask(lengths, max_time) ==
  [b \in DOMAIN lengths |->
     [t \in 1..max_time |-> IF t <= lengths[b] THEN 1 ELSE 0]]

\* self.batch_size = tf.size(iterator.source_sequence_length)
batch_size == Len(source_sequence_length)

NoLoss == [sum |-> -1, batch_size |-> 0]

\* _compute_loss: ce is the cross-entropy of every position, [batch][time];
\* the graph holds it, and the weights, as [time][batch] when time_major.
\* The loss sum / batch_size is kept as the pair of the two.
compute_loss(hp, lengths, ce) ==
  LET max_time == Len(ce[1])
      ce_t == IF hp.time_major THEN transpose(ce, Len(ce), max_time) ELSE ce
      mask == sequence_mask(lengths, max_time)
      target_weights ==
        IF hp.time_major THEN transpose(mask, Len(mask), max_time) ELSE mask
  IN [sum |-> reduce_sum([i \in DOMAIN ce_t |->
                            [j \in DOMAIN ce_t[i] |->
                               ce_t[i][j] * target_weights[i][j]]]),
      batch_size |-> batch_size]

Train ==
  /\ status = "built"
  /\ pc = "idle"
  /\ train_calls < hparams.num_train_steps + MaxExtraSteps
  /\ IF TrainModeOk
       THEN /\ params' = RunParams(TrainFetches, params)
            /\ global_step' = RunGlobalStep(TrainFetches, global_step)
            /\ train_calls' = train_calls + 1
            /\ \E gs \in fetched_global_step(global_step, global_step') :
                 last' = Returned("train", gs, learning_rate(hparams, global_step))
            /\ loss' = compute_loss(hparams, target_sequence_length, crossent)
       ELSE /\ last' = AssertionFailed("train")
            /\ UNCHANGED <<params, global_step, train_calls, loss>>
  /\ UNCHANGED sample_words
  /\ UNCHANGED modelVars
  /\ UNCHANGED loopVars

Eval ==
  /\ status = "built"
  /\ pc = "idle"
  /\ IF EvalModeOk
       THEN /\ params' = RunParams(EvalFetches, params)
            /\ global_step' = RunGlobalStep(EvalFetches, global_step)
            /\ last' = Returned("eval", -1, NoRate)
            /\ loss' = compute_loss(hparams, target_sequence_length, crossent)
       ELSE /\ last' = AssertionFailed("eval")
            /\ UNCHANGED <<params, global_step, loss>>
  /\ UNCHANGED <<train_calls, sample_words>>
  /\ UNCHANGED modelVars
  /\ UNCHANGED loopVars

MaxOf(s) == CHOOSE x \in s : \A y \in s : y <= x

get_infer_maximum_iterations_factor3(hp, lengths) ==
  IF hp.tgt_max_len_infer # 0
    THEN hp.tgt_max_len_infer
    ELSE 3 * MaxOf({lengths[b] : b \in DOMAIN lengths})

\* _get_infer_maximum_iterations: tf.round(to_float(max length) * 2.0) is
\* exactly twice the integer
get_infer_maximum_iterations(hp, lengths) ==
  IF hp.tgt_max_len_infer # 0
    THEN hp.tgt_max_len_infer
    ELSE 2 * MaxOf({lengths[b] : b \in DOMAIN lengths})

maximum_iterations == get_infer_maximum_iterations(hparams, source_sequence_length)

\* the session run of infer(): the inference graph, whose dynamic_decode
\* starts with time 0, lengths 0 and finished = (0 >= maximum_iterations)
InferCall(op) ==
  /\ status = "built"
  /\ pc = "idle"
  /\ IF InferModeOk
       THEN /\ pc' = "decoding"
            /\ inflight' = op
            /\ time' = 0
            /\ finished' = [b \in 1..BatchSize |-> 0 >= maximum_iterations]
            /\ sequence_lengths' = [b \in 1..BatchSize |-> 0]
            /\ UNCHANGED last
       ELSE /\ last' = AssertionFailed(op)
            /\ UNCHANGED loopVars
  /\ UNCHANGED <<params, global_step, train_calls>>
  /\ UNCHANGED modelVars
  /\ UNCHANGED fetchVars

Infer == InferCall("infer")

\* decode() calls infer() and transposes what it returns
Decode == InferCall("decode")

\* one iteration of dynamic_decode's loop; eos[b] says whether the decoder
\* emitted the end token for sequence b in this step
DecodeStep ==
  /\ pc = "decoding"
  /\ \E b \in 1..BatchSize : ~finished[b]
  /\ \E eos \in [1..BatchSize -> BOOLEAN] :
       LET next_finished ==
             [b \in 1..BatchSize |->
                eos[b] \/ finished[b] \/ time + 1 >= maximum_iterations]
       IN /\ finished' = next_finished
          /\ sequence_lengths' =
               [b \in 1..BatchSize |->
                  IF ~finished[b] /\ next_finished[b]
                    THEN time + 1
                    ELSE sequence_lengths[b]]
  /\ time' = time + 1
  /\ UNCHANGED <<pc, inflight, last, params, global_step, train_calls>>
  /\ UNCHANGED modelVars
  /\ UNCHANGED fetchVars

\* the axes of sample_id, hence of the sample_words that infer() returns:
\* dynamic_decode(output_time_major=self.time_major) of a BasicDecoder gives
\* sample_id, of a BeamSearchDecoder predicted_ids with the beam axis last
infer_sample_words(hp, decoder) ==
  LET ids == IF decoder = "BeamSearchDecoder"
               THEN <<"batch", "time", "beam">>
               ELSE <<"batch", "time">>
  IN IF hp.time_major
       THEN [i \in DOMAIN ids |-> IF i = 1 THEN ids[2] ELSE IF i = 2 THEN ids[1] ELSE ids[i]]
       ELSE ids

\* numpy's ndarray.transpose(): without axes it reverses them, with axes
\* (counted from 0) the result's axis i is the array's axis axes[i]
ndarray_transpose(a, axes) ==
  IF axes = <<>>
    THEN [i \in DOMAIN a |-> a[Len(a) + 1 - i]]
    ELSE [i \in DOMAIN a |-> a[axes[i] + 1]]

decode_transposes_time_major_only(hp, words) ==
  IF hp.time_major THEN ndarray_transpose(words, <<>>) ELSE words

\* what decode() does to the sample_words of infer()
decode_sample_words(hp, words) ==
  IF hp.time_major THEN ndarray_transpose(words, <<>>)
  ELSE IF Len(words) = 3 THEN ndarray_transpose(words, <<2, 0, 1>>)
  ELSE words

\* the loop ends when every sequence is finished; the call returns
InferReturn ==
  /\ pc = "decoding"
  /\ \A b \in 1..BatchSize : finished[b]
  /\ pc' = "idle"
  /\ inflight' = ""
  /\ last' = Returned(inflight, -1, NoRate)
  /\ sample_words' =
       IF inflight = "decode"
         THEN decode_sample_words(hparams, infer_sample_words(hparams, my_decoder))
         ELSE infer_sample_words(hparams, my_decoder)
  /\ params' = RunParams(InferFetches, params)
  /\ global_step' = RunGlobalStep(InferFetches, global_step)
  /\ UNCHANGED <<time, finished, sequence_lengths, train_calls, loss>>
  /\ UNCHANGED modelVars

-----------------------------------------------------------------------------
(* Specifications *)

HParams(enc, att, ws, ds, n, w, bw, temp, tmax) ==
  [encoder_type |-> enc, attention |-> att, warmup_scheme |-> ws,
   decay_scheme |-> ds, num_train_steps |-> n, warmup_steps |-> w,
   beam_width |-> bw, sampling_temperature |-> temp,
   tgt_max_len_infer |-> tmax,
   num_encoder_layers |-> 2, num_decoder_layers |-> 2, time_major |-> TRUE]

\* the cross-entropy the graph computes for target position t of batch
\* element b: a different power of two for every position, so that a sum
\* of cross-entropies tells which positions were summed
TokenCrossent(b, t) == 2 ^ ((b - 1) * MaxTime + (t - 1))

\* the cross-entropies of a batch padded to max_time positions: those of the
\* target tokens, then pad[b][t] at the padding after sequence b's length
Crossent(lengths, max_time, pad) ==
  [b \in 1..BatchSize |->
     [t \in 1..max_time |->
        IF t <= lengths[b] THEN TokenCrossent(b, t) ELSE pad[b][t]]]

\* the batch of the specifications that are not about the loss: the first
\* sequence is the longest, the others have one position of padding
OneBatch ==
  /\ target_sequence_length =
       [b \in 1..BatchSize |-> IF b = 1 THEN MaxTime ELSE MaxTime - 1]
  /\ crossent = Crossent(target_sequence_length, MaxTime,
                         [b \in 1..BatchSize |-> [t \in 1..MaxTime |-> 1]])

\* everything but the configuration, before the constructor runs
Unconstructed ==
  /\ status = "config"
  /\ error = ""
  /\ my_decoder = ""
  /\ global_step = 0
  /\ params = 0
  /\ train_calls = 0
  /\ pc = "idle"
  /\ inflight = ""
  /\ time = 0
  /\ finished = [b \in 1..BatchSize |-> FALSE]
  /\ sequence_lengths = [b \in 1..BatchSize |-> 0]
  /\ last = NoCall
  /\ encoder_state = NoState
  /\ decoder_initial_state = NoState
  /\ loss = NoLoss
  /\ sample_words = <<>>

\* the driver: every mode, every scheme and type name, every decoding configuration
Init ==
  /\ hparams \in
       {HParams(enc, att, ws, ds, DriverTrainSteps, 0, bw, temp, 0) :
          enc \in EncoderTypes, att \in BOOLEAN, ws \in WarmupSchemes,
          ds \in DecaySchemes, bw \in -1..MaxBeamWidth,
          temp \in SamplingTemperatures}
  /\ mode \in Modes
  /\ source_sequence_length = [b \in 1..BatchSize |-> 1]
  /\ OneBatch
  /\ Unconstructed

Next ==
  \/ Construct
  \/ Train
  \/ Eval
  \/ Infer
  \/ Decode
  \/ DecodeStep
  \/ InferReturn

Spec == Init /\ [][Next]_vars

\* the learning-rate schedule: a TRAIN model for every known decay scheme,
\* num_train_steps and warmup_steps
InitLR ==
  /\ hparams \in
       {HParams("uni", FALSE, "t2t", ds, n, w, 0, 0, 0) :
          ds \in LuongSchemes \cup {""}, n \in 1..MaxTrainSteps,
          w \in 0..MaxWarmupSteps}
  /\ mode = "TRAIN"
  /\ source_sequence_length = [b \in 1..BatchSize |-> 1]
  /\ OneBatch
  /\ Unconstructed

NextLR ==
  \/ Construct
  \/ Train

SpecLR == InitLR /\ [][NextLR]_vars

\* the decode loop: an INFER model for every length cap and every batch of
\* source lengths
InitDecode ==
  /\ hparams \in
       {HParams("uni", FALSE, "t2t", "", DriverTrainSteps, 0, bw, 0, tmax) :
          bw \in 0..1, tmax \in 0..MaxTgtLenInfer}
  /\ mode = "INFER"
  /\ source_sequence_length \in [1..BatchSize -> 0..MaxSrcLen]
  /\ OneBatch
  /\ Unconstructed

NextDecode ==
  \/ Construct
  \/ Infer
  \/ Decode
  \/ DecodeStep
  \/ InferReturn

SpecDecode == InitDecode /\ [][NextDecode]_vars

\* the graph: every mode, both encoder types, every pair of layer counts,
\* both layouts, with and without beam search
InitGraph ==
  /\ hparams \in
       {[HParams(enc, FALSE, "t2t", "", DriverTrainSteps, 0, bw, 0, 0)
           EXCEPT !.num_encoder_layers = ne, !.num_decoder_layers = nd,
                  !.time_major = tm] :
          enc \in {"uni", "bi"}, bw \in 0..MaxBeamWidth,
          ne \in 1..MaxLayers, nd \in 1..MaxLayers, tm \in BOOLEAN}
  /\ mode \in Modes
  /\ source_sequence_length = [b \in 1..BatchSize |-> 1]
  /\ OneBatch
  /\ Unconstructed

SpecGraph == InitGraph /\ [][Next]_vars

\* the value the cross-entropy takes at a position of padding
PadCrossents == {1, 2}

\* the loss: a TRAIN or EVAL model in both layouts, for every batch of
\* target lengths, padded to the longest of them, and every padding
InitLoss ==
  /\ hparams \in
       {[HParams("uni", FALSE, "t2t", "", DriverTrainSteps, 0, 0, 0, 0)
           EXCEPT !.time_major = tm] : tm \in BOOLEAN}
  /\ mode \in {"TRAIN", "EVAL"}
  /\ source_sequence_length = [b \in 1..BatchSize |-> 1]
  /\ target_sequence_length \in [1..BatchSize -> 1..MaxTime]
  /\ LET max_time == MaxOf({target_sequence_length[b] : b \in 1..BatchSize})
     IN \E pad \in [1..BatchSize -> [1..max_time -> PadCrossents]] :
          crossent = Crossent(target_sequence_length, max_time, pad)
  /\ Unconstructed

NextLoss ==
  \/ Construct
  \/ Train
  \/ Eval

SpecLoss == InitLoss /\ [][NextLoss]_vars

-----------------------------------------------------------------------------
(* Properties of the driver *)

\* the mode an operation asserts
RequiredMode(op) ==
  CASE op = "train" -> "TRAIN"
    [] op = "eval" -> "EVAL"
    [] op \in {"infer", "decode"} -> "INFER"

\* C1: train, eval, infer and decode succeed only on a model constructed in
\* the matching mode; a call on a model of another mode ends in the failed
\* assertion and changes nothing: not the parameters, not the global step,
\* and no session run (decode loop) is started.
C1_WrongModeFailsUntouched ==
  [][/\ ( \/ (Train /\ mode # "TRAIN")
          \/ (Eval /\ mode # "EVAL")
          \/ ((Infer \/ Decode) /\ mode # "INFER") )
        => /\ last'.outcome = "AssertionError"
           /\ UNCHANGED <<params, global_step, train_calls, pc, time>>
     /\ last'.outcome = "ok" => mode = RequiredMode(last'.op)
     /\ pc' = "decoding" => mode = "INFER"
     /\ params' # params => mode = "TRAIN"]_vars

\* C1 witness: train was called on an EVAL model and failed
C1_Witness ==
  /\ status = "built"
  /\ mode = "EVAL"
  /\ last = AssertionFailed("train")
  /\ params = 0
  /\ global_step = 0

\* C2: the global step is 0 at construction, each completed train call adds
\* exactly 1 to it, no other operation changes it, so it never decreases and
\* always equals the number of completed train calls.
C2_GlobalStepCountsTrainCalls ==
  [][/\ Construct => global_step' = 0
     /\ (Train /\ mode = "TRAIN") => global_step' = global_step + 1
     /\ ~(Train /\ mode = "TRAIN") /\ ~Construct => global_step' = global_step
     /\ global_step' >= global_step
     /\ global_step' = train_calls']_vars

\* C2 witness: two train calls have completed
C2_Witness ==
  /\ mode = "TRAIN"
  /\ last.op = "train"
  /\ last.outcome = "ok"
  /\ train_calls = 2
  /\ global_step = 2

\* C3: eval, infer and decode leave the trainable parameters as they were;
\* only a train call (on a TRAIN model) changes them.
C3_OnlyTrainMutatesParams ==
  [][/\ (Eval \/ Infer \/ Decode \/ DecodeStep \/ InferReturn)
          => params' = params
     /\ params' # params => (Train /\ mode = "TRAIN")]_vars

\* C3 witness: an eval call has returned on an EVAL model
C3_Witness ==
  /\ mode = "EVAL"
  /\ last = Returned("eval", -1, NoRate)
  /\ params = 0

InferStrategies ==
  {"BeamSearchDecoder", "SampleEmbeddingHelper", "GreedyEmbeddingHelper"}

\* C4 as stated: in INFER mode beam search is selected iff beam_width > 0,
\* temperature sampling iff beam_width = 0 and temperature > 0, greedy iff
\* beam_width = 0 and temperature = 0.
C4_AsStated ==
  (status = "built" /\ mode = "INFER") =>
     /\ my_decoder \in InferStrategies
     /\ my_decoder = "BeamSearchDecoder" <=> hparams.beam_width > 0
     /\ my_decoder = "SampleEmbeddingHelper"
          <=> (hparams.beam_width = 0 /\ hparams.sampling_temperature > 0)
     /\ my_decoder = "GreedyEmbeddingHelper"
          <=> (hparams.beam_width = 0 /\ hparams.sampling_temperature = 0)

\* C4 amended: in INFER mode exactly one strategy is selected for every
\* (beam_width, sampling_temperature): beam search iff beam_width > 0,
\* temperature sampling iff beam_width <= 0 and temperature > 0, greedy iff
\* beam_width <= 0 and temperature <= 0.
C4_StrategySelection ==
  (status = "built" /\ mode = "INFER") =>
     /\ my_decoder \in InferStrategies
     /\ my_decoder = "BeamSearchDecoder" <=> hparams.beam_width > 0
     /\ my_decoder = "SampleEmbeddingHelper"
          <=> (hparams.beam_width <= 0 /\ hparams.sampling_temperature > 0)
     /\ my_decoder = "GreedyEmbeddingHelper"
          <=> (hparams.beam_width <= 0 /\ hparams.sampling_temperature <= 0)

\* C4 witness: a negative beam_width with a positive temperature samples
C4_Witness ==
  /\ status = "built"
  /\ mode = "INFER"
  /\ hparams.beam_width < 0
  /\ hparams.sampling_temperature > 0
  /\ my_decoder = "SampleEmbeddingHelper"

\* C9: a TRAIN configuration whose warmup_scheme is not t2t, or whose
\* decay_scheme is none of luong5, luong10, luong234 and "", is rejected with
\* a ValueError by the constructor: no model exists, and no train step runs.
C9_UnknownSchemeRejected ==
  ( /\ status # "config"
    /\ mode = "TRAIN"
    /\ \/ hparams.warmup_scheme # "t2t"
       \/ hparams.decay_scheme \notin {"luong5", "luong10", "luong234", ""} )
  => /\ status = "ValueError"
     /\ error # ""
     /\ last = NoCall
     /\ train_calls = 0
     /\ params = 0

\* C9 witness: the constructor rejected an unknown decay scheme
C9_Witness ==
  /\ status = "ValueError"
  /\ mode = "TRAIN"
  /\ hparams.warmup_scheme = "t2t"
  /\ hparams.decay_scheme = "exp"
  /\ error = "Unknown decay scheme"

-----------------------------------------------------------------------------
(* Properties of the inference decode loop (SpecDecode) *)

\* the cap the claim names: tgt_max_len_infer when set, else twice the
\* largest source length of the batch
C5_Cap ==
  IF hparams.tgt_max_len_infer # 0
    THEN hparams.tgt_max_len_infer
    ELSE 2 * MaxOf({source_sequence_length[b] : b \in 1..BatchSize})

\* C5: inference decoding terminates: every loop step advances time by one
\* and time never exceeds the cap (tgt_max_len_infer when set, else twice the
\* largest source length); a finished sequence stays finished with its
\* recorded length unchanged, a sequence that finishes gets the current time
\* as its length, at the cap every sequence is finished (so the loop is left
\* even if no end token was emitted), and the call returns only then.
C5_DecodeLoopBounded ==
  [][/\ time' <= C5_Cap
     /\ DecodeStep =>
          /\ time' = time + 1
          /\ \A b \in 1..BatchSize :
               /\ finished[b] =>
                    (finished'[b] /\ sequence_lengths'[b] = sequence_lengths[b])
               /\ (~finished[b] /\ finished'[b]) => sequence_lengths'[b] = time'
               /\ ~finished'[b] => sequence_lengths'[b] = 0
     /\ (pc' = "decoding" /\ time' >= C5_Cap)
          => \A b \in 1..BatchSize : finished'[b]
     /\ InferReturn =>
          \A b \in 1..BatchSize : finished[b] /\ sequence_lengths[b] <= C5_Cap]_vars

\* C5 witness: with no tgt_max_len_infer, a call returned after the loop ran
\* to the cap; one sequence emitted the end token at step 1, the other never
C5_Witness ==
  /\ hparams.tgt_max_len_infer = 0
  /\ pc = "idle"
  /\ last = Returned("infer", -1, NoRate)
  /\ time = 2 * MaxOf({source_sequence_length[b] : b \in 1..BatchSize})
  /\ time > 1
  /\ sequence_lengths[1] = 1
  /\ sequence_lengths[2] = time

-----------------------------------------------------------------------------
(* Properties of the learning-rate schedule (SpecLR) *)

\* the rate r times 0.5^k
C6_HalvedTimes(r, k) == [r EXCEPT !.halvings = @ + k]

\* C6 as stated: for luong5, luong10 and luong234 and every num_train_steps
\* N, start_decay_step = floor(N/2), floor(N/2), floor(2N/3), decay_steps =
\* floor((N - start_decay_step)/k) with k = 5, 10, 4; the rate at a step s <
\* start_decay_step is the warmed-up base rate and at s >= start_decay_step
\* it is that rate times 0.5^floor((s - start_decay_step)/decay_steps).
C6_AsStated ==
  (status = "built" /\ hparams.decay_scheme \in LuongSchemes) =>
    LET n == hparams.num_train_steps
        s == global_step
        start == IF hparams.decay_scheme = "luong234" THEN (2 * n) \div 3
                                                       ELSE n \div 2
        k == CASE hparams.decay_scheme = "luong5" -> 5
               [] hparams.decay_scheme = "luong10" -> 10
               [] hparams.decay_scheme = "luong234" -> 4
        steps == (n - start) \div k
        warmed == get_learning_rate_warmup(hparams, s, BaseRate)
    IN /\ start_decay_step(hparams) = start
       /\ decay_steps(hparams) = steps
       /\ s < start => learning_rate(hparams, s) = warmed
       /\ s >= start =>
            /\ steps > 0
            /\ learning_rate(hparams, s)
                 = C6_HalvedTimes(warmed, (s - start) \div steps)

\* C7 as stated: for every decay scheme and every positive num_train_steps
\* the learning rate is non-increasing from step to step for all steps >=
\* start_decay_step; under the luong schemes it is constant within each
\* window of decay_steps steps and exactly halved at each window boundary.
C7_AsStated ==
  (status = "built" /\ global_step >= start_decay_step(hparams)) =>
    LET s == global_step
        this == learning_rate(hparams, s)
        next == learning_rate(hparams, s + 1)
    IN /\ RateLeq(next, this)
       /\ hparams.decay_scheme \in LuongSchemes =>
            /\ decay_steps(hparams) > 0
            /\ next = IF (s + 1 - start_decay_step(hparams)) % decay_steps(hparams) = 0
                        THEN Halved(this)
                        ELSE this

\* base_rate * 0.01
C8_IsHundredthOfBase(r) ==
  r.kind = "num" /\ r.halvings = 0 /\ r.warm[1] = r.warm[2] /\ r.warm[1] > 0

\* C8 as stated: under t2t, for all (warmup_steps, base_rate), the warmed-up
\* rate at global step 0 is base_rate * 0.01, it rises with the step while
\* step < warmup_steps, and at every step >= warmup_steps it is base_rate.
C8_AsStated ==
  status = "built" =>
    LET w == hparams.warmup_steps
        s == global_step
        warmed(t) == get_learning_rate_warmup(hparams, t, BaseRate)
    IN /\ C8_IsHundredthOfBase(warmed(0))
       /\ s < w => RateLess(warmed(s), warmed(s + 1))
       /\ s >= w => warmed(s) = BaseRate

\* C8 amended: under t2t with warmup_steps > 0 the warmed-up rate at global
\* step 0 is base_rate * 0.01, it rises strictly with the step while step <
\* warmup_steps, and at every step >= warmup_steps it is base_rate; with
\* warmup_steps = 0 there is no warmup: the rate is base_rate at every step,
\* step 0 included.
C8_WarmupRises ==
  status = "built" =>
    LET w == hparams.warmup_steps
        s == global_step
        warmed(t) == get_learning_rate_warmup(hparams, t, BaseRate)
    IN /\ w > 0 => C8_IsHundredthOfBase(warmed(0))
       /\ w = 0 => warmed(0) = BaseRate
       /\ s < w => /\ RateLess(warmed(s), warmed(s + 1))
                   /\ RateLess(warmed(s), BaseRate)
       /\ s >= w => warmed(s) = BaseRate
       /\ (last.op = "train" /\ s <= start_decay_step(hparams))
            => last.learning_rate = warmed(s - 1)

\* C8 witness: with warmup_steps = 3 the train call at step 2 ran at
\* base * 0.01^(1/3), and the global step has reached warmup_steps
C8_Witness ==
  /\ status = "built"
  /\ hparams.warmup_steps = 3
  /\ global_step = 3
  /\ last.op = "train"
  /\ last.learning_rate = [kind |-> "num", warm |-> <<1, 3>>, halvings |-> 0]
  /\ get_learning_rate_warmup(hparams, global_step, BaseRate) = BaseRate

-----------------------------------------------------------------------------
(* Properties of the graph *)

\* C11: a bidirectional encoder with one bidirectional layer returns the raw
\* pair (forward state, backward state); with n > 1 bidirectional layers it
\* returns a tuple of 2n states in which, counting layers and entries from
\* 0, entry 2i is the forward state of layer i and entry 2i+1 the backward
\* state of layer i (for n = 2: forward 1, backward 1, forward 2, backward 2).
C11_BiStateInterleaved ==
  (status = "built" /\ hparams.encoder_type = "bi") =>
    LET n == hparams.num_encoder_layers \div 2
    IN /\ n = 1 =>
            encoder_state = StateTuple(<<LayerState("fw", 1), LayerState("bw", 1)>>)
       /\ n > 1 =>
            /\ encoder_state.t = "tuple"
            /\ Len(encoder_state.items) = 2 * n
            /\ \A i \in 1..n :
                 /\ encoder_state.items[2 * i - 1] = LayerState("fw", i)
                 /\ encoder_state.items[2 * i] = LayerState("bw", i)

\* C11 witness: a bidirectional encoder of two bidirectional layers was built
C11_Witness ==
  /\ status = "built"
  /\ hparams.encoder_type = "bi"
  /\ hparams.num_encoder_layers \div 2 = 2
  /\ Len(encoder_state.items) = 4

\* tiled is the state with every row of it repeated exactly k times, the
\* copies of a row next to each other and the rows in their order
C12_ReplicatedTimes(tiled, state, k) ==
  LET same(a, b) ==
        /\ a.t = "state" /\ b.t = "state"
        /\ a.dir = b.dir /\ a.layer = b.layer
        /\ Len(a.rows) = k * Len(b.rows)
        /\ \A r \in DOMAIN b.rows :
             Cardinality({i \in DOMAIN a.rows : a.rows[i] = b.rows[r]}) = k
        /\ \A i, j \in DOMAIN a.rows : i <= j => a.rows[i] <= a.rows[j]
  IN IF state.t = "state"
       THEN same(tiled, state)
       ELSE /\ tiled.t = "tuple"
            /\ Len(tiled.items) = Len(state.items)
            /\ \A i \in DOMAIN state.items : same(tiled.items[i], state.items[i])

\* C12: the decoder's initial state is the encoder's final state replicated
\* exactly beam_width times if and only if the beam-search decoder is the one
\* selected (INFER mode and beam_width > 0); otherwise it is the encoder
\* state unchanged.  The tiling and the choice of decoder never disagree.
C12_TiledIffBeamSearch ==
  status = "built" =>
    /\ my_decoder = "BeamSearchDecoder" <=> (mode = "INFER" /\ hparams.beam_width > 0)
    /\ my_decoder = "BeamSearchDecoder" =>
         C12_ReplicatedTimes(decoder_initial_state, encoder_state, hparams.beam_width)
    /\ my_decoder # "BeamSearchDecoder" => decoder_initial_state = encoder_state
    /\ decoder_initial_state # encoder_state => my_decoder = "BeamSearchDecoder"

\* C12 witness: a beam-search model of width 2 was built on a tiled state
C12_Witness ==
  /\ status = "built"
  /\ my_decoder = "BeamSearchDecoder"
  /\ hparams.beam_width = 2
  /\ decoder_initial_state # encoder_state

\* C13: for every combination of time_major and beam search, decode returns
\* the words as (batch, time) without beam search and as (beam, batch, time)
\* with it, the output of inference being (time, batch[, beam]) when
\* time_major and (batch, time[, beam]) otherwise.
C13_DecodeLayout ==
  /\ (last.op = "infer" /\ last.outcome = "ok") =>
       sample_words =
         IF hparams.time_major
           THEN IF my_decoder = "BeamSearchDecoder"
                  THEN <<"time", "batch", "beam">> ELSE <<"time", "batch">>
           ELSE IF my_decoder = "BeamSearchDecoder"
                  THEN <<"batch", "time", "beam">> ELSE <<"batch", "time">>
  /\ (last.op = "decode" /\ last.outcome = "ok") =>
       sample_words =
         IF my_decoder = "BeamSearchDecoder"
           THEN <<"beam", "batch", "time">>
           ELSE <<"batch", "time">>

\* C13 witness: decode returned from a beam search that is not time-major
C13_Witness ==
  /\ last.op = "decode"
  /\ last.outcome = "ok"
  /\ ~hparams.time_major
  /\ my_decoder = "BeamSearchDecoder"
  /\ sample_words = <<"beam", "batch", "time">>

-----------------------------------------------------------------------------
(* Properties of the loss *)

\* the batch of the state with the cross-entropy pad at every position of
\* padding
C14_Repadded(pad) ==
  [b \in 1..BatchSize |->
     [t \in 1..Len(crossent[b]) |->
        IF t <= target_sequence_length[b] THEN crossent[b][t] ELSE pad]]

-----------------------------------------------------------------------------
(* Properties of the returned global step *)

\* C15 as stated: the global-step value returned by a train call is the
\* updated one, the value before the call plus 1, for every train call.
C15_AsStated ==
  [][(Train /\ mode = "TRAIN") =>
       /\ last'.op = "train"
       /\ last'.outcome = "ok"
       /\ last'.global_step = global_step + 1]_vars

-----------------------------------------------------------------------------
(* Properties of the number of halvings *)

\* C16 as stated: under luong5, luong10 and luong234 the learning rate is
\* halved 5, 10 and 4 times over the interval from start_decay_step to
\* num_train_steps: for every num_train_steps N the rate at step N is the
\* undecayed rate times 0.5^5, 0.5^10, 0.5^4, and no step before N has been
\* halved more times than that.
C16_AsStated ==
  (status = "built" /\ hparams.decay_scheme \in LuongSchemes) =>
    LET n == hparams.num_train_steps
        s == global_step
        k == CASE hparams.decay_scheme = "luong5" -> 5
               [] hparams.decay_scheme = "luong10" -> 10
               [] hparams.decay_scheme = "luong234" -> 4
        undecayed == get_learning_rate_warmup(hparams, s, BaseRate)
        rate == learning_rate(hparams, s)
    IN /\ s = n => rate = [undecayed EXCEPT !.halvings = k]
       /\ s < n => \E h \in 0..k : rate = [undecayed EXCEPT !.halvings = h]

-----------------------------------------------------------------------------
(* Properties of the layer counts *)

\* C17 as stated: for every configuration on which construction succeeds,
\* the encoder final state handed to the decoder has exactly
\* num_encoder_layers per-layer entries, for uni and bi encoders alike, so
\* that it seeds a decoder with the same number of layers one state per layer.
C17_AsStated ==
  status = "built" =>
    /\ StateEntries(encoder_state) = hparams.num_encoder_layers
    /\ hparams.num_decoder_layers = hparams.num_encoder_layers

\* C17, amended: for every configuration on which construction succeeds, the
\* encoder final state has num_encoder_layers per-layer entries for a uni
\* encoder and 2 * floor(num_encoder_layers / 2) for a bi encoder, which is
\* num_encoder_layers exactly when that is even; the decoder it seeds, one
\* state per layer, has that number of layers.
C17_EntriesPerEncoderType ==
  status = "built" =>
    LET n == hparams.num_encoder_layers
        entries == StateEntries(encoder_state)
    IN /\ hparams.encoder_type = "uni" => entries = n
       /\ hparams.encoder_type = "bi" => entries = 2 * (n \div 2)
       /\ entries = n <=> (hparams.encoder_type = "uni" \/ n % 2 = 0)
       /\ entries = hparams.num_decoder_layers
       /\ StateEntries(decoder_initial_state) = hparams.num_decoder_layers

\* C17 witness: a bi encoder of three layers was built, with a state of two
\* entries for a decoder of two layers
C17_Witness ==
  /\ status = "built"
  /\ hparams.encoder_type = "bi"
  /\ hparams.num_encoder_layers = 3
  /\ hparams.num_decoder_layers = 2
  /\ StateEntries(encoder_state) = 2

=============================================================================
